---- MODULE Spec2Model ----
(***************************************************************************)
(* The refresh controller of my-bus-stop: the fetchBusData callback, the   *)
(* auto-refresh effect and the 1-second tick of the StopPage and Home      *)
(* components (src/src/StopPage.tsx, src/unnamed/part_001).                *)
(*                                                                         *)
(* One behaviour is the life of one mounted component instance.  Every     *)
(* action is one task of the browser's event loop run to quiescence: a     *)
(* handler together with the microtasks it leaves behind.  Time is counted *)
(* in half seconds, so the literal 1000 (ms) of the source is SECOND = 2.  *)
(***************************************************************************)
EXTENDS Integers, Sequences, FiniteSets

VARIABLES
    page,                  \* "StopPage" or "Home": which component this instance is
    stopCode,              \* useParams().stopCode (StopPage) / STOP_CODE (Home)
    mounted,               \* the effects of the first render have run
    visible,               \* document.visibilityState = 'visible'
    clock,                 \* Date.now()
    nowMs,                 \* useState nowMs
    autoDue,               \* when the auto-refresh interval is next due (0: not installed)
    lastRequestAtRef,      \* useRef lastRequestAtRef.current
    inFlightRequestRef,    \* useRef inFlightRequestRef.current: a fetch id, 0 for null
    nextAllowedRefreshAt,  \* useState nextAllowedRefreshAt
    isRefreshing,          \* useState isRefreshing
    loading,               \* useState loading
    error,                 \* useState error
    snapshot,              \* useState stopName / routes: the document they were parsed from
    lastUpdated,           \* useState lastUpdated (0 for null)
    fetches,               \* every fetch() ever issued, in issue order, with its progress
                           \* (upstream: what the response being read came from)
    applied,               \* ids of the fetches whose result was applied, in order of application
    nev,                   \* number of handler events so far (mount, tick, click, navigation)
    last,                  \* the last handler event and what its fetchBusData call did
    call,                  \* extractor runs: the function applied and its argument
    result                 \* extractor runs: its return value, once it has returned

env == <<page, stopCode, mounted, visible, clock, nowMs, autoDue>>
ctl == <<lastRequestAtRef, inFlightRequestRef, nextAllowedRefreshAt, isRefreshing,
         loading, error, snapshot, lastUpdated>>
hist == <<fetches, applied, nev, last>>
pure == <<call, result>>
vars == <<env, ctl, hist, pure>>

----------------------------------------------------------------------------
\* Configuration and bounds

\* refreshPolicy.MIN_REQUEST_GAP_MS, in half seconds
MIN_REQUEST_GAP_MS == 4
\* refreshPolicy.AUTO_REFRESH_INTERVAL_MS, in half seconds
AUTO_REFRESH_INTERVAL_MS == 5
\* the literal 1000 of the 1-second tick and of the cooldown, in half seconds
SECOND == 2
\* how far the clock runs past the time of the first render
MaxAdvance == 5
\* how many handler events (mount, ticks, clicks, navigations) one behaviour holds
MaxEvents == 3

\* Date.now() at the first render: far larger than any gap
StartTime == MIN_REQUEST_GAP_MS + AUTO_REFRESH_INTERVAL_MS

STOP_CODE == "402854"
StopCodes == {STOP_CODE, "400001"}
NoStopCode == ""
\* documents the upstream source may answer with
Docs == {"docA", "docB"}
NoSnapshot == "empty"
NoError == "null"
\* what fetch() may settle to: a success status, a non-success status, a rejection
Responses == {"ok", "HTTP 500", "Failed to fetch"}
\* what becomes of the request for a stop code: the upstream source answers 200,
\* answers a non-success status, cannot be reached by the proxy, or the proxy
\* cannot be reached by the browser
UpstreamOutcomes == {"200", "404", "unreachable"}
Origins == UpstreamOutcomes \cup {"offline"}
\* the body of a non-success answer of the upstream source
ErrorPage == "errorPage"
UpstreamBodies(u) == IF u = "200" THEN Docs ELSE {ErrorPage}

Max(a, b) == IF a >= b THEN a ELSE b
CeilAsFloor(a, b) == a \div b
\* Math.ceil(a / b) for b > 0
Ceil(a, b) == -((-a) \div b)

----------------------------------------------------------------------------
\* Derived values

Outstanding == {f \in DOMAIN fetches : fetches[f].phase \in {"pending", "reading"}}

InFlightSetNever == FALSE
\* if (inFlightRequestRef.current)
InFlightSet == inFlightRequestRef # 0

TooSoonNever(now) == FALSE
TooSoonStrict(now) == now - lastRequestAtRef < MIN_REQUEST_GAP_MS - 1
\* if (now - lastRequestAtRef.current < MIN_REQUEST_GAP_MS)
TooSoon(now) == now - lastRequestAtRef < MIN_REQUEST_GAP_MS

NextAllowedNoGap(now) == now
\* now + MIN_REQUEST_GAP_MS
NextAllowedAfter(now) == now + MIN_REQUEST_GAP_MS

refreshCooldownSeconds == Max(0, Ceil(nextAllowedRefreshAt - nowMs, SECOND))
refreshLocked == isRefreshing \/ refreshCooldownSeconds > 0

\* the stop code the current fetchBusData closure was created with
ClosureCode == IF page = "Home" THEN STOP_CODE ELSE stopCode

----------------------------------------------------------------------------
NoCall == [fn |-> "none", page |-> "none", arg |-> <<>>]
NoResult == [done |-> FALSE, value |-> <<>>]

Init ==
    /\ call = NoCall
    /\ result = NoResult
    /\ page \in {"StopPage", "Home"}
    /\ stopCode \in (IF page = "Home" THEN {STOP_CODE} ELSE StopCodes)
    /\ mounted = FALSE
    /\ visible \in BOOLEAN
    /\ clock = StartTime
    /\ nowMs = StartTime
    /\ autoDue = 0
    /\ lastRequestAtRef = 0
    /\ inFlightRequestRef = 0
    /\ nextAllowedRefreshAt = 0
    /\ isRefreshing = FALSE
    /\ loading = TRUE
    /\ error = NoError
    /\ snapshot = NoSnapshot
    /\ lastUpdated = 0
    /\ fetches = <<>>
    /\ applied = <<>>
    /\ nev = 0
    /\ last = [kind |-> "render", outcome |-> "none"]

----------------------------------------------------------------------------
\* fetchBusData

StartFetchNoHandle(kind, code, now) ==
    /\ lastRequestAtRef' = now
    /\ nextAllowedRefreshAt' = NextAllowedAfter(now)
    /\ isRefreshing' = TRUE
    /\ fetches' = Append(fetches, [at |-> now, code |-> code, by |-> kind,
                                   phase |-> "pending", callers |-> 1,
                                   upstream |-> "none"])
    /\ last' = [kind |-> kind, outcome |-> "started"]
    /\ UNCHANGED <<inFlightRequestRef, loading, error, snapshot, lastUpdated, applied>>

StartFetchNotRefreshing(kind, code, now) ==
    /\ lastRequestAtRef' = now
    /\ nextAllowedRefreshAt' = NextAllowedAfter(now)
    /\ fetches' = Append(fetches, [at |-> now, code |-> code, by |-> kind,
                                   phase |-> "pending", callers |-> 1,
                                   upstream |-> "none"])
    /\ inFlightRequestRef' = Len(fetches) + 1
    /\ last' = [kind |-> kind, outcome |-> "started"]
    /\ UNCHANGED <<isRefreshing, loading, error, snapshot, lastUpdated, applied>>

\* the accepted request: record the issue time, expose nextAllowedAt, start the fetch
StartFetch(kind, code, now) ==
    /\ lastRequestAtRef' = now
    /\ nextAllowedRefreshAt' = NextAllowedAfter(now)
    /\ isRefreshing' = TRUE
    /\ fetches' = Append(fetches, [at |-> now, code |-> code, by |-> kind,
                                   phase |-> "pending", callers |-> 1,
                                   upstream |-> "none"])
    /\ inFlightRequestRef' = Len(fetches) + 1
    /\ last' = [kind |-> kind, outcome |-> "started"]
    /\ UNCHANGED <<loading, error, snapshot, lastUpdated, applied>>

ShareInFlightDetached(kind) ==
    /\ last' = [kind |-> kind, outcome |-> "shared"]
    /\ UNCHANGED <<ctl, fetches, applied>>

\* return inFlightRequestRef.current: the caller waits for the outstanding fetch
ShareInFlight(kind) ==
    /\ fetches' = [fetches EXCEPT ![inFlightRequestRef].callers = @ + 1]
    /\ last' = [kind |-> kind, outcome |-> "shared"]
    /\ UNCHANGED <<ctl, applied>>

\* an early return that does nothing
ReturnEarly(kind, why) ==
    /\ last' = [kind |-> kind, outcome |-> why]
    /\ UNCHANGED <<ctl, fetches, applied>>

\* one call of fetchBusData, made by the handler `kind`
FetchBusData(kind, code) ==
    /\ nev' = nev + 1
    /\ IF code = NoStopCode THEN ReturnEarly(kind, "nocode")
       ELSE IF InFlightSet THEN ShareInFlight(kind)
       ELSE IF TooSoon(clock) THEN ReturnEarly(kind, "dropped")
       ELSE StartFetch(kind, code, clock)

----------------------------------------------------------------------------
\* Handlers

\* the effects of the first render: the first request and the two intervals
Mount ==
    /\ ~mounted
    /\ mounted' = TRUE
    /\ FetchBusData("mount", ClosureCode)
    /\ autoDue' = clock + AUTO_REFRESH_INTERVAL_MS
    /\ UNCHANGED <<page, stopCode, visible, clock, nowMs>>
    /\ UNCHANGED pure

HiddenNever == FALSE
\* if (document.visibilityState !== 'visible') return
Hidden == ~visible

\* the callback of the auto-refresh interval
AutoRefreshTick ==
    /\ mounted
    /\ autoDue # 0
    /\ clock >= autoDue
    /\ nev < MaxEvents
    /\ autoDue' = clock + AUTO_REFRESH_INTERVAL_MS
    /\ IF Hidden
         THEN /\ nev' = nev + 1
              /\ ReturnEarly("tick", "hidden")
         ELSE FetchBusData("tick", ClosureCode)
    /\ UNCHANGED <<page, stopCode, mounted, visible, clock, nowMs>>
    /\ UNCHANGED pure

\* a click on the refresh button, which is disabled while refreshLocked
ManualRefresh ==
    /\ mounted
    /\ ~refreshLocked
    /\ nev < MaxEvents
    /\ FetchBusData("manual", ClosureCode)
    /\ UNCHANGED env
    /\ UNCHANGED pure

\* StopPage only: the route parameter changes while the component stays mounted;
\* fetchBusData is re-created and the auto-refresh effect is cleaned up and re-run
Navigate(c) ==
    /\ mounted
    /\ page = "StopPage"
    /\ c # stopCode
    /\ nev < MaxEvents
    /\ stopCode' = c
    /\ FetchBusData("rerun", c)
    /\ autoDue' = clock + AUTO_REFRESH_INTERVAL_MS
    /\ UNCHANGED <<page, mounted, visible, clock, nowMs>>
    /\ UNCHANGED pure

\* the callback of the 1-second interval
SecondTick ==
    /\ mounted
    /\ clock >= nowMs + SECOND
    /\ nowMs' = clock
    /\ UNCHANGED <<page, stopCode, mounted, visible, clock, autoDue, ctl, hist>>
    /\ UNCHANGED pure

----------------------------------------------------------------------------
\* Fetch completion

SettleKeepHandle(f, phase) ==
    /\ loading' = FALSE
    /\ isRefreshing' = FALSE
    /\ fetches' = [fetches EXCEPT ![f].phase = phase, ![f].upstream = "none"]
    /\ UNCHANGED <<inFlightRequestRef, lastRequestAtRef, nextAllowedRefreshAt, nev, last, env>>

SettleStillLoading(f, phase) ==
    /\ isRefreshing' = FALSE
    /\ inFlightRequestRef' = 0
    /\ fetches' = [fetches EXCEPT ![f].phase = phase, ![f].upstream = "none"]
    /\ UNCHANGED <<loading, lastRequestAtRef, nextAllowedRefreshAt, nev, last, env>>

\* the two finally blocks: of the request and, in the next microtask, of its caller
Settle(f, phase) ==
    /\ loading' = FALSE
    /\ isRefreshing' = FALSE
    /\ inFlightRequestRef' = 0
    /\ fetches' = [fetches EXCEPT ![f].phase = phase, ![f].upstream = "none"]
    /\ UNCHANGED <<lastRequestAtRef, nextAllowedRefreshAt, nev, last, env>>

\* parseBusData(html), as far as the controller is concerned: the error page of
\* the upstream source holds no heading and no route block
parsedSnapshot(doc) == IF doc = ErrorPage THEN NoSnapshot ELSE doc

\* the try block after a successful read
Succeed(f, doc) ==
    /\ snapshot' = parsedSnapshot(doc)
    /\ lastUpdated' = clock
    /\ error' = NoError
    /\ applied' = Append(applied, f)
    /\ Settle(f, "ok")

FailClearing(f, msg) ==
    /\ error' = msg
    /\ snapshot' = NoSnapshot
    /\ UNCHANGED <<lastUpdated, applied>>
    /\ Settle(f, "failed")

FailRetrying(f, msg) ==
    /\ error' = msg
    /\ loading' = FALSE
    /\ isRefreshing' = TRUE
    /\ inFlightRequestRef' = Len(fetches) + 1
    /\ fetches' = Append([fetches EXCEPT ![f].phase = "failed", ![f].upstream = "none"],
                         [at |-> fetches[f].at, code |-> fetches[f].code, by |-> "retry",
                          phase |-> "pending", callers |-> 1,
                                   upstream |-> "none"])
    /\ UNCHANGED <<snapshot, lastUpdated, applied, lastRequestAtRef,
                   nextAllowedRefreshAt, nev, last, env>>

\* the catch block
Fail(f, msg) ==
    /\ error' = msg
    /\ UNCHANGED <<snapshot, lastUpdated, applied>>
    /\ Settle(f, "failed")

\* GET /api/bustime of server.ts, given what the upstream source did: the body
\* is sent with the default status 200 whatever response.status was; a rejected
\* upstream fetch rejects the handler, which the framework answers with 500
bustimeProxy(u) == IF u = "unreachable" THEN "HTTP 500" ELSE "ok"

\* what fetch('/api/bustime?q=...') settles to in the browser
ClientResponse(u) == IF u = "offline" THEN "Failed to fetch" ELSE bustimeProxy(u)

\* fetch() settles: with res.ok, with a non-success status, or by rejecting
Respond(f, u) ==
    /\ f \in DOMAIN fetches
    /\ fetches[f].phase = "pending"
    /\ ClientResponse(u) \in Responses
    /\ IF ClientResponse(u) = "ok"
         THEN /\ fetches' = [fetches EXCEPT ![f].phase = "reading", ![f].upstream = u]
              /\ UNCHANGED <<env, ctl, applied, nev, last>>
         ELSE Fail(f, ClientResponse(u))
    /\ UNCHANGED pure

\* res.text() resolves with the document the proxy passed on
ReadBody(f, doc) ==
    /\ f \in DOMAIN fetches
    /\ fetches[f].phase = "reading"
    /\ doc \in UpstreamBodies(fetches[f].upstream)
    /\ Succeed(f, doc)
    /\ UNCHANGED pure

\* res.text() rejects
ReadBodyFails(f) ==
    /\ f \in DOMAIN fetches
    /\ fetches[f].phase = "reading"
    /\ Fail(f, "Failed to fetch")
    /\ UNCHANGED pure

----------------------------------------------------------------------------
\* Environment

AdvanceClock ==
    /\ mounted
    /\ clock < StartTime + MaxAdvance
    /\ clock' = clock + 1
    /\ UNCHANGED <<page, stopCode, mounted, visible, nowMs, autoDue, ctl, hist>>
    /\ UNCHANGED pure

ToggleVisibility ==
    /\ mounted
    /\ visible' = ~visible
    /\ UNCHANGED <<page, stopCode, mounted, clock, nowMs, autoDue, ctl, hist>>
    /\ UNCHANGED pure

FetchCompletes ==
    \E f \in DOMAIN fetches :
        \/ \E u \in Origins : Respond(f, u)
        \/ \E doc \in Docs \cup {ErrorPage} : ReadBody(f, doc)
        \/ ReadBodyFails(f)

Next ==
    \/ Mount
    \/ AutoRefreshTick
    \/ ManualRefresh
    \/ \E c \in StopCodes : Navigate(c)
    \/ SecondTick
    \/ FetchCompletes
    \/ AdvanceClock
    \/ ToggleVisibility

Spec == Init /\ [][Next]_vars

\* every fetch eventually completes
LiveSpec == Spec /\ WF_vars(FetchCompletes)

----------------------------------------------------------------------------
\* The extractor: parseMinutesNum, parseStopsAway, parseBusData and the
\* display order are pure.  A text is a sequence of atoms, an atom being a
\* digit, a punctuation character, one blank, or a whole word.  A number is
\* an exact fraction, or NaN.

MaxTextLen == 3

SeqsUpTo(atoms, n) == UNION {[1..k -> atoms] : k \in 0..n}
Range(s) == {s[i] : i \in DOMAIN s}

Digits == <<"0", "1", "2", "3", "4", "5", "6", "7", "8", "9">>
DigitSet == Range(Digits)
DigitValue(a) == CHOOSE d \in 0..9 : Digits[d + 1] = a
Blank == " "

RECURSIVE ValueOf(_)
ValueOf(ds) ==
    IF ds = <<>> THEN 0
    ELSE 10 * ValueOf(SubSeq(ds, 1, Len(ds) - 1)) + DigitValue(ds[Len(ds)])

RECURSIVE DecimalOf(_)
DecimalOf(n) ==
    IF n < 10 THEN <<Digits[n + 1]>>
    ELSE Append(DecimalOf(n \div 10), Digits[(n % 10) + 1])

RECURSIVE GCD(_, _)
GCD(a, b) == IF b = 0 THEN a ELSE GCD(b, a % b)

NaN == [nan |-> TRUE, num |-> 0, den |-> 1]
Abs(n) == IF n < 0 THEN -n ELSE n
Num(n, d) ==
    LET g == GCD(Abs(n), d)
    IN  [nan |-> FALSE, num |-> n \div g, den |-> d \div g]
Minus(a, b) == a.num * b.den - b.num * a.den

\* String.prototype.toLowerCase on one atom
toLowerCase(a) ==
    CASE a = "Approaching" -> "approaching"
      [] a = "Stops" -> "stops"
      [] a = "Miles" -> "miles"
      [] a = "Away" -> "away"
      [] OTHER -> a

Includes(text, word) == \E i \in DOMAIN text : text[i] = word
IncludesFolded(text, word) == \E i \in DOMAIN text : toLowerCase(text[i]) = word

\* the length of the longest prefix of s made of atoms of the set
PrefixLen(s, set) ==
    CHOOSE n \in 0..Len(s) :
        /\ \A j \in 1..n : s[j] \in set
        /\ n = Len(s) \/ s[n + 1] \notin set
From(s, i) == SubSeq(s, i, Len(s))
SkipBlanks(s) == From(s, PrefixLen(s, {Blank}) + 1)
Reverse(s) == [i \in 1..Len(s) |-> s[Len(s) + 1 - i]]
trim(s) == Reverse(SkipBlanks(Reverse(SkipBlanks(s))))

\* parseFloat: blanks, a sign, digits, a point, digits; NaN without a digit
parseFloat(text) ==
    LET s == SkipBlanks(text)
        signed == s # <<>> /\ s[1] \in {"-", "+"}
        u == IF signed THEN Tail(s) ELSE s
        whole == SubSeq(u, 1, PrefixLen(u, DigitSet))
        rest == From(u, Len(whole) + 1)
        frac == IF rest # <<>> /\ rest[1] = "."
                  THEN SubSeq(Tail(rest), 1, PrefixLen(Tail(rest), DigitSet))
                  ELSE <<>>
        mag == ValueOf(whole \o frac)
    IN  IF Len(whole) + Len(frac) = 0 THEN NaN
        ELSE Num(IF signed /\ s[1] = "-" THEN -mag ELSE mag, 10 ^ Len(frac))

\* Math.round of a fraction that is not negative
round(n, d) == (2 * n + d) \div (2 * d)

parseMinutesNumLessThanFirst(text) ==
    IF Includes(text, "<") THEN Num(1, 2)
    ELSE IF IncludesFolded(text, "approaching") THEN Num(0, 1)
    ELSE IF parseFloat(text).nan THEN Num(999, 1) ELSE parseFloat(text)

parseMinutesNum(text) ==
    IF IncludesFolded(text, "approaching") THEN Num(0, 1)
    ELSE IF Includes(text, "<") THEN Num(1, 2)
    ELSE LET num == parseFloat(text)
         IN  IF num.nan THEN Num(999, 1) ELSE num

\* text.match(/(class+)\s*units?\s*away/i): the capture of the leftmost
\* match, as <<from, to>>; <<0, 0>> when there is none
MatchesAt(text, class, units, i) ==
    /\ i \in DOMAIN text
    /\ text[i] \in class
    /\ LET run == PrefixLen(From(text, i), class)
           a == SkipBlanks(From(text, i + run))
       IN  /\ a # <<>>
           /\ toLowerCase(a[1]) \in units
           /\ LET b == SkipBlanks(Tail(a))
              IN  b # <<>> /\ toLowerCase(b[1]) = "away"
AwayMatch(text, class, units) ==
    LET starts == {i \in DOMAIN text : MatchesAt(text, class, units, i)}
    IN  IF starts = {} THEN <<0, 0>>
        ELSE LET i == CHOOSE k \in starts : \A j \in starts : k <= j
             IN  <<i, i + PrefixLen(From(text, i), class) - 1>>

StopsAway == <<Blank, "stops", Blank, "away">>

parseStopsAway(distanceText) ==
    LET stopsMatch == AwayMatch(distanceText, DigitSet \cup {"<"}, {"stop", "stops"})
        milesMatch == AwayMatch(distanceText, DigitSet \cup {"."}, {"mile", "miles"})
    IN  IF stopsMatch[1] # 0
          THEN SubSeq(distanceText, stopsMatch[1], stopsMatch[2]) \o StopsAway
        ELSE IF IncludesFolded(distanceText, "approaching") THEN <<"Approaching">>
        ELSE IF milesMatch[1] # 0
          THEN LET miles == parseFloat(SubSeq(distanceText, milesMatch[1], milesMatch[2]))
                   stops == IF miles.nan THEN <<"NaN">>
                            ELSE DecimalOf(Max(1, round(miles.num * 8, miles.den)))
               IN  <<"~">> \o stops \o StopsAway
        ELSE distanceText

\* A document is what DOMParser hands to the queries of parseBusData: its h3
\* elements with the nodes that follow each, and its .directionAtStop blocks.
\* An element that querySelector may not find is a sequence of at most one
\* text.  Texts are on one line.

\* headerText.match(/^(\S+)\s+(.+)/) and, in Home, /^(\S+)\s/, on the trimmed
\* text: the length of the token the text starts with
TokenLen(t) ==
    CHOOSE n \in 0..Len(t) :
        /\ \A j \in 1..n : t[j] # Blank
        /\ n = Len(t) \/ t[n + 1] = Blank
HeaderMatches(headerText) ==
    TokenLen(headerText) >= 1 /\ TokenLen(headerText) < Len(headerText)
HeaderRoute(headerText) == SubSeq(headerText, 1, TokenLen(headerText))
HeaderDirection(headerText) == SkipBlanks(From(headerText, TokenLen(headerText) + 1))

\* fullText.match(/minutes?\s*,\s*(.+?)(?:\s*Vehicle|\s*$)/)?.[1]?.trim() ?? ''
DistanceStarts(fullText) ==
    {i \in DOMAIN fullText :
        /\ fullText[i] \in {"minute", "minutes"}
        /\ LET a == SkipBlanks(From(fullText, i + 1))
           IN  a # <<>> /\ a[1] = "," /\ Tail(a) # <<>>}
rawDistance(fullText) ==
    IF DistanceStarts(fullText) = {} THEN <<>>
    ELSE LET i == CHOOSE k \in DistanceStarts(fullText) :
                      \A j \in DistanceStarts(fullText) : k <= j
             c == SkipBlanks(Tail(SkipBlanks(From(fullText, i + 1))))
             Ends(k) == LET r == SkipBlanks(From(c, k + 1))
                        IN  r = <<>> \/ r[1] = "Vehicle"
         IN  IF c = <<>> THEN <<>>
             ELSE trim(SubSeq(c, 1, CHOOSE k \in 1..Len(c) :
                                        Ends(k) /\ \A j \in 1..(k - 1) : ~Ends(j)))

\* text.trim().replace('Vehicle ', '')
vehicleId(small) ==
    LET t == trim(small)
        at == {i \in 1..(Len(t) - 1) : t[i] = "Vehicle" /\ t[i + 1] = Blank}
    IN  IF at = {} THEN t
        ELSE LET i == CHOOSE k \in at : \A j \in at : k <= j
             IN  SubSeq(t, 1, i - 1) \o From(t, i + 2)

\* arrivals.push({...}) for one li
Arrival(li) ==
    LET minutes == IF li.strong = <<>> THEN <<>> ELSE trim(li.strong[1])
    IN  [minutes |-> minutes,
         minutesNum |-> parseMinutesNum(minutes),
         stopsAway |-> parseStopsAway(rawDistance(li.text)),
         vehicleId |-> IF li.small = <<>> THEN <<>> ELSE vehicleId(li.small[1])]

RECURSIVE EveryItem(_)
EveryItem(ol) ==
    IF ol = <<>> THEN <<>> ELSE <<Arrival(ol[1])>> \o EveryItem(Tail(ol))

FirstItem(ol) == IF ol = <<>> THEN <<>> ELSE <<Arrival(ol[1])>>

\* ols.forEach
RECURSIVE Arrivals(_)
Arrivals(ols) ==
    IF ols = <<>> THEN <<>> ELSE FirstItem(ols[1]) \o Arrivals(Tail(ols))

\* directions.forEach of StopPage
RECURSIVE Routes(_)
Routes(directions) ==
    IF directions = <<>> THEN <<>>
    ELSE LET dir == directions[1]
             headerText == trim(dir.header[1])
         IN  (IF dir.header = <<>> \/ ~HeaderMatches(headerText) THEN <<>>
              ELSE <<[route |-> HeaderRoute(headerText),
                      direction |-> HeaderDirection(headerText),
                      arrivals |-> Arrivals(dir.ols)]>>)
             \o Routes(Tail(directions))

\* directions.forEach of Home
RECURSIVE HomeRoutes(_)
HomeRoutes(directions) ==
    IF directions = <<>> THEN <<>>
    ELSE LET dir == directions[1]
             headerText == trim(dir.header[1])
         IN  (IF dir.header = <<>> \/ ~HeaderMatches(headerText) THEN <<>>
              ELSE <<[route |-> HeaderRoute(headerText),
                      arrivals |-> Arrivals(dir.ols)]>>)
             \o HomeRoutes(Tail(directions))

RECURSIVE FirstText(_)
FirstText(nodes) ==
    IF nodes = <<>> THEN <<>>
    ELSE IF trim(nodes[1]) # <<>> THEN trim(nodes[1])
    ELSE FirstText(Tail(nodes))

RECURSIVE parseStopName(_)
parseStopName(h3s) ==
    IF h3s = <<>> THEN <<>>
    ELSE IF Includes(h3s[1].text, "Bus Stop:") /\ FirstText(h3s[1].siblings) # <<>>
      THEN FirstText(h3s[1].siblings)
    ELSE parseStopName(Tail(h3s))

parseBusData(doc) ==
    [stopName |-> parseStopName(doc.h3s), routes |-> Routes(doc.directions)]

HomeParseBusData(doc) == HomeRoutes(doc.directions)

\* The display order of the render: the cards in the order they are shown

ALL_ROUTES == <<<<"M101">>, <<"M102">>, <<"M103">>>>

compareDescending(a, b) == Minus(b.arrivals[1].minutesNum, a.arrivals[1].minutesNum)

\* (a, b) => a.arrivals[0].minutesNum - b.arrivals[0].minutesNum
compare(a, b) == Minus(a.arrivals[1].minutesNum, b.arrivals[1].minutesNum)

\* Array.prototype.sort, which is stable
Insert(s, x) ==
    LET k == CHOOSE n \in 0..Len(s) :
                 /\ \A j \in 1..n : compare(s[j], x) <= 0
                 /\ n = Len(s) \/ compare(s[n + 1], x) > 0
    IN  SubSeq(s, 1, k) \o <<x>> \o From(s, k + 1)
RECURSIVE sort(_)
sort(s) == IF s = <<>> THEN <<>> ELSE Insert(sort(SubSeq(s, 1, Len(s) - 1)), s[Len(s)])

HasArrivals(r) == r.arrivals # <<>>
HasNone(r) == r.arrivals = <<>>
withArrivals(routes) == sort(SelectSeq(routes, HasArrivals))
noArrivals(routes) == SelectSeq(routes, HasNone)
emptyRoutes(routes) ==
    LET activeRouteNames == {r.route : r \in Range(withArrivals(routes))}
        Inactive(name) == name \notin activeRouteNames
    IN  SelectSeq(ALL_ROUTES, Inactive)

Card(r) == [route |-> r.route, data |-> <<r>>]
Placeholder(name) == [route |-> name, data |-> <<>>]
Cards(rs) == [i \in DOMAIN rs |-> Card(rs[i])]

StopPageCards(routes) == Cards(withArrivals(routes)) \o Cards(noArrivals(routes))
HomeCards(routes) ==
    Cards(withArrivals(routes))
        \o [i \in DOMAIN emptyRoutes(routes) |-> Placeholder(emptyRoutes(routes)[i])]

\* The inputs the extractor is run on

MaxLists == 2
MaxBlocks == 2
MaxRoutes == 3

MinuteAtoms == {"Approaching", "approaching", "<", "7", "1", ".", "-", Blank, "min", "garbage"}
MinuteExamples == {<<"<", "1", Blank, "min">>, <<"1", "7", ".", "5", Blank, "min">>}
MinuteTexts == SeqsUpTo(MinuteAtoms, MaxTextLen) \cup MinuteExamples

DistanceAtoms == {"2", ".", "<", Blank, "stops", "Stop", "miles", "mile", "away", "approaching"}
DistanceExamples ==
    {<<"3", Blank, "stops", Blank, "away">>,
     <<"2", ".", "1", Blank, "miles", Blank, "away">>,
     <<"0", ".", "0", "5", Blank, "miles", Blank, "away">>,
     <<"Approaching", Blank, "now">>,
     <<"approaching", ",", Blank, "<", "1", Blank, "stop", Blank, "away">>,
     <<"approaching", ",", Blank, "0", ".", "3", Blank, "miles", Blank, "away">>}
DistanceTexts == SeqsUpTo(DistanceAtoms, MaxTextLen) \cup DistanceExamples

HeaderAtoms == {"M101", Blank, "Southbound"}
HeaderTexts == SeqsUpTo(HeaderAtoms, MaxTextLen)

ItemA ==
    [strong |-> << <<"3", Blank, "min">> >>,
     small |-> << <<"Vehicle", Blank, "1234">> >>,
     text |-> <<"3", Blank, "minutes", ",", Blank, "2", Blank, "stops", Blank, "away",
                ",", Blank, "Vehicle", Blank, "1234">>]
ItemB ==
    [strong |-> << <<"Approaching">> >>,
     small |-> <<>>,
     text |-> <<"Approaching">>]
ItemC ==
    [strong |-> <<>>,
     small |-> << <<Blank, "5678", Blank>> >>,
     text |-> <<"1", Blank, "minute", ",", Blank, "0", ".", "3", Blank, "miles", Blank, "away">>]
OrderedLists == {<<>>, <<ItemA>>, <<ItemB>>, <<ItemC>>, <<ItemA, ItemB>>, <<ItemB, ItemA>>}
ListTexts == SeqsUpTo(OrderedLists, MaxLists)

Headers == {<<>>} \cup {<<t>> : t \in HeaderTexts}
RichBlocks == [header : Headers, ols : ListTexts]

PlainBlocks ==
    {[header |-> <<>>, ols |-> << <<ItemA>> >>],
     [header |-> << <<"M101", Blank, "Southbound">> >>, ols |-> << <<ItemA>>, <<>>, <<ItemB, ItemA>> >>],
     [header |-> << <<"M102">> >>, ols |-> << <<ItemB>> >>],
     [header |-> << <<Blank, "M103", Blank, Blank, "Northbound", Blank, "local">> >>, ols |-> <<>>]}
Headings ==
    {<<>>,
     <<[text |-> <<"Bus Stop:">>, siblings |-> << <<Blank>>, <<Blank, "3 AV/E 23 ST", Blank>> >>]>>,
     <<[text |-> <<"Routes">>, siblings |-> << <<"M101">> >>],
       [text |-> <<"Bus Stop:">>, siblings |-> <<>>]>>}

Documents ==
    [h3s : {<<>>}, directions : {<<b>> : b \in RichBlocks}]
        \cup [h3s : Headings, directions : SeqsUpTo(PlainBlocks, MaxBlocks)]

Estimate(minutes) ==
    [minutes |-> minutes, minutesNum |-> parseMinutesNum(minutes),
     stopsAway |-> <<>>, vehicleId |-> <<>>]
Snapshots ==
    {[route |-> <<"M101">>, direction |-> <<"Southbound">>, arrivals |-> <<>>],
     [route |-> <<"M101">>, direction |-> <<"Southbound">>,
      arrivals |-> <<Estimate(<<"7", Blank, "min">>), Estimate(<<"Approaching">>)>>],
     [route |-> <<"M102">>, direction |-> <<"Northbound">>,
      arrivals |-> <<Estimate(<<"garbage">>)>>],
     [route |-> <<"M103">>, direction |-> <<"Southbound">>,
      arrivals |-> <<Estimate(<<"<", "1", Blank, "min">>)>>],
     [route |-> <<"Q44">>, direction |-> <<"Northbound">>, arrivals |-> <<>>],
     [route |-> <<"Q44">>, direction |-> <<"Northbound">>,
      arrivals |-> <<Estimate(<<"Approaching">>)>>]}
RouteLists == SeqsUpTo(Snapshots, MaxRoutes)
WithoutDirection(routes) ==
    [i \in DOMAIN routes |-> [route |-> routes[i].route, arrivals |-> routes[i].arrivals]]

Calls ==
    [fn : {"parseMinutesNum"}, page : {"StopPage"}, arg : MinuteTexts]
        \cup [fn : {"parseStopsAway"}, page : {"StopPage"}, arg : DistanceTexts]
        \cup [fn : {"parseBusData"}, page : {"StopPage", "Home"}, arg : Documents]
        \cup [fn : {"render"}, page : {"StopPage"}, arg : RouteLists]
        \cup [fn : {"render"}, page : {"Home"},
              arg : {WithoutDirection(routes) : routes \in RouteLists}]

ExtractInit ==
    /\ call \in Calls
    /\ result = NoResult
    /\ page = call.page
    /\ stopCode = STOP_CODE
    /\ mounted = FALSE
    /\ visible = TRUE
    /\ clock = StartTime
    /\ nowMs = StartTime
    /\ autoDue = 0
    /\ lastRequestAtRef = 0
    /\ inFlightRequestRef = 0
    /\ nextAllowedRefreshAt = 0
    /\ isRefreshing = FALSE
    /\ loading = TRUE
    /\ error = NoError
    /\ snapshot = NoSnapshot
    /\ lastUpdated = 0
    /\ fetches = <<>>
    /\ applied = <<>>
    /\ nev = 0
    /\ last = [kind |-> "render", outcome |-> "none"]

\* one run of each function on the argument of the call
RunParseMinutesNum ==
    /\ call.fn = "parseMinutesNum"
    /\ ~result.done
    /\ result' = [done |-> TRUE, value |-> parseMinutesNum(call.arg)]
    /\ UNCHANGED <<call, env, ctl, hist>>

RunParseStopsAway ==
    /\ call.fn = "parseStopsAway"
    /\ ~result.done
    /\ result' = [done |-> TRUE, value |-> parseStopsAway(call.arg)]
    /\ UNCHANGED <<call, env, ctl, hist>>

RunParseBusData ==
    /\ call.fn = "parseBusData"
    /\ ~result.done
    /\ result' = [done |-> TRUE,
                  value |-> IF call.page = "Home" THEN HomeParseBusData(call.arg)
                            ELSE parseBusData(call.arg)]
    /\ UNCHANGED <<call, env, ctl, hist>>

RunRender ==
    /\ call.fn = "render"
    /\ ~result.done
    /\ result' = [done |-> TRUE,
                  value |-> IF call.page = "Home" THEN HomeCards(call.arg)
                            ELSE StopPageCards(call.arg)]
    /\ UNCHANGED <<call, env, ctl, hist>>

ExtractNext ==
    \/ RunParseMinutesNum
    \/ RunParseStopsAway
    \/ RunParseBusData
    \/ RunRender

ExtractSpec == ExtractInit /\ [][ExtractNext]_vars

\* the run has returned from the function
Returned(fn) == call.fn = fn /\ result.done
EmittedRoutes == IF call.page = "Home" THEN result.value ELSE result.value.routes

----------------------------------------------------------------------------
\* The proxy of server.ts: one GET /api/bustime, from the request to the
\* response.  The q parameters of the URL are a sequence of values: none, one
\* (req.query.q is a string) or several (req.query.q is an array).

MaxParams == 2

QueryValues == {"", Blank, STOP_CODE, "400001"}
Queries == SeqsUpTo(QueryValues, MaxParams)

TruthyAlways(query) == TRUE

\* !query is false: a string that is not empty, or an array
Truthy(query) ==
    IF Len(query) = 0 THEN FALSE
    ELSE IF Len(query) = 1 THEN query[1] # ""
    ELSE TRUE

\* String(query): the string itself, or the elements of the array joined by commas
RECURSIVE String(_)
String(query) ==
    IF query = <<>> THEN <<>>
    ELSE (IF query[1] = "" THEN <<>> ELSE <<query[1]>>)
         \o (IF Len(query) > 1 THEN <<",">> \o String(Tail(query)) ELSE <<>>)

encodeURIComponent(text) ==
    [i \in DOMAIN text |->
        CASE text[i] = "," -> "%2C"
          [] text[i] = Blank -> "%20"
          [] OTHER -> text[i]]

Received ==
    [phase |-> "received", status |-> 0, body |-> "", contacted |-> <<>>, upstream |-> "none"]

ProxyInit ==
    /\ call \in [fn : {"bustimeProxy"}, page : {"none"}, arg : Queries]
    /\ result = [done |-> FALSE, value |-> Received]
    /\ page = "StopPage"
    /\ stopCode = STOP_CODE
    /\ mounted = FALSE
    /\ visible = TRUE
    /\ clock = StartTime
    /\ nowMs = StartTime
    /\ autoDue = 0
    /\ lastRequestAtRef = 0
    /\ inFlightRequestRef = 0
    /\ nextAllowedRefreshAt = 0
    /\ isRefreshing = FALSE
    /\ loading = TRUE
    /\ error = NoError
    /\ snapshot = NoSnapshot
    /\ lastUpdated = 0
    /\ fetches = <<>>
    /\ applied = <<>>
    /\ nev = 0
    /\ last = [kind |-> "render", outcome |-> "none"]

\* the handler up to its first await
HandleBustime ==
    /\ call.fn = "bustimeProxy"
    /\ result.value.phase = "received"
    /\ IF ~Truthy(call.arg)
         THEN result' = [done |-> TRUE,
                         value |-> [result.value EXCEPT !.phase = "sent", !.status = 400,
                                                        !.body = "Missing q parameter"]]
         ELSE result' = [done |-> FALSE,
                         value |-> [result.value EXCEPT
                                       !.phase = "fetching",
                                       !.contacted = Append(@, encodeURIComponent(String(call.arg)))]]
    /\ UNCHANGED <<call, env, ctl, hist>>

\* await fetch(url) settles; a rejection goes to the error handler of Express
UpstreamAnswers(u) ==
    /\ call.fn = "bustimeProxy"
    /\ result.value.phase = "fetching"
    /\ IF bustimeProxy(u) = "ok"
         THEN result' = [result EXCEPT !.value.phase = "reading", !.value.upstream = u]
         ELSE result' = [done |-> TRUE,
                         value |-> [result.value EXCEPT !.phase = "sent", !.status = 500]]
    /\ UNCHANGED <<call, env, ctl, hist>>

\* await response.text() resolves: res.send(html)
SendBody(html) ==
    /\ call.fn = "bustimeProxy"
    /\ result.value.phase = "reading"
    /\ html \in UpstreamBodies(result.value.upstream)
    /\ result' = [done |-> TRUE,
                  value |-> [result.value EXCEPT !.phase = "sent", !.status = 200, !.body = html]]
    /\ UNCHANGED <<call, env, ctl, hist>>

\* await response.text() rejects
BodyFails ==
    /\ call.fn = "bustimeProxy"
    /\ result.value.phase = "reading"
    /\ result' = [done |-> TRUE,
                  value |-> [result.value EXCEPT !.phase = "sent", !.status = 500]]
    /\ UNCHANGED <<call, env, ctl, hist>>

ProxyNext ==
    \/ HandleBustime
    \/ \E u \in UpstreamOutcomes : UpstreamAnswers(u)
    \/ \E html \in Docs \cup {ErrorPage} : SendBody(html)
    \/ BodyFails

ProxySpec == ProxyInit /\ [][ProxyNext]_vars

----------------------------------------------------------------------------
\* Vocabulary of the properties, stated on the history of fetches rather than
\* on the controller's own fields

\* this step ran a handler that called fetchBusData
RequestStep == nev' = nev + 1 /\ last'.outcome # "hidden"
\* this step ran the callback of the auto-refresh interval
TickStep == nev' = nev + 1 /\ last'.kind = "tick"
\* this step issued a fetch
FetchStarted == Len(fetches') = Len(fetches) + 1
NoFetchStarted == Len(fetches') = Len(fetches)
\* this step completed fetch f, by success or by failure
Completed(f) == f \in Outstanding /\ fetches'[f].phase \in {"ok", "failed"}
\* the minimum gap has elapsed since the last issued fetch
GapElapsed ==
    fetches = <<>> \/ clock - fetches[Len(fetches)].at >= MIN_REQUEST_GAP_MS
HandlerKinds == {"mount", "rerun", "tick", "manual"}

----------------------------------------------------------------------------
\* C1: in every reachable state at most one underlying fetch is outstanding,
\* whatever the interleaving of mount, clicks, timer ticks and completions.
C1_SingleFlight == Cardinality(Outstanding) <= 1

\* a request has just been made while a fetch was outstanding and the gap had elapsed
C1_Witness ==
    /\ Cardinality(Outstanding) = 1
    /\ last.outcome = "shared"
    /\ GapElapsed

\* C2: a refresh request made while no fetch is outstanding and less than the
\* minimum gap has elapsed since the last issued request changes nothing of the
\* controller (snapshot, error, lastRequestIssuedAt, nextAllowedAt, isRefreshing,
\* in-flight handle) and starts no fetch; and no fetch is started on its behalf
\* later: a fetch only ever starts inside a handler's own request, made when
\* nothing is outstanding and the gap has elapsed.
C2_CoolingRequestIsNoOp ==
    [][ /\ (RequestStep /\ Outstanding = {} /\ ~GapElapsed)
            => (NoFetchStarted /\ UNCHANGED <<ctl, fetches, applied>>)
        /\ FetchStarted => (RequestStep /\ Outstanding = {} /\ GapElapsed)
      ]_vars

\* a request has just been dropped by the cooldown
C2_Witness ==
    /\ last.outcome = "dropped"
    /\ Outstanding = {}
    /\ ~GapElapsed
    /\ Len(fetches) >= 1

\* C3: the issue times of any two successive fetches differ by at least the
\* minimum gap, whatever became of the earlier one and whatever triggered them.
C3_MinimumGap ==
    \A i \in 2..Len(fetches) :
        fetches[i].at - fetches[i - 1].at >= MIN_REQUEST_GAP_MS

\* a second fetch was issued, by a tick or a click, after the first one failed
C3_Witness ==
    /\ Len(fetches) >= 2
    /\ fetches[1].phase = "failed"
    /\ fetches[2].by \in {"tick", "manual"}

\* C4: a request made while a fetch is outstanding starts no fetch, leaves
\* lastRequestIssuedAt and nextAllowedAt alone even when the gap has elapsed,
\* and joins the outstanding fetch (its caller is resolved by that fetch and
\* not before); so as long as the first fetch has not resolved, it is the only one.
C4_SharedStep ==
    \A f \in Outstanding : RequestStep =>
        /\ NoFetchStarted
        /\ UNCHANGED <<lastRequestAtRef, nextAllowedRefreshAt, inFlightRequestRef>>
        /\ last'.outcome = "shared"
        /\ fetches'[f].phase = fetches[f].phase
        /\ fetches'[f].callers = fetches[f].callers + 1
C4_FirstFetchAlone ==
    (fetches # <<>> /\ 1 \in Outstanding) => Len(fetches) = 1
\* C4: every request made during a fetch joins it, and the first fetch stays alone
\* until it resolves.
C4_InFlightRequestJoins == [][C4_SharedStep]_vars /\ []C4_FirstFetchAlone

\* two requests joined the first fetch before it resolved, after the gap elapsed
C4_Witness ==
    /\ Len(fetches) = 1
    /\ 1 \in Outstanding
    /\ fetches[1].callers >= 3
    /\ GapElapsed

\* C5: an accepted request records the current time as lastRequestIssuedAt and
\* sets nextAllowedAt to that time plus the minimum gap; so once a fetch has
\* been issued, nextAllowedAt = lastRequestIssuedAt + minimumGap.
C5_NextAllowedAt ==
    fetches # <<>> =>
        /\ lastRequestAtRef = fetches[Len(fetches)].at
        /\ nextAllowedRefreshAt = lastRequestAtRef + MIN_REQUEST_GAP_MS

\* a second request was accepted, later than the first
C5_Witness ==
    /\ Len(fetches) = 2
    /\ last.outcome = "started"
    /\ lastRequestAtRef > fetches[1].at

\* C6: a fetch that ends in a transport failure sets the error to a message and
\* leaves the snapshot and its last-updated time alone; a fetch that succeeds
\* replaces the snapshot and clears the error.
C6_CompletionStep ==
    \A f \in Outstanding :
        /\ (fetches'[f].phase = "failed") =>
              /\ error' \in {"HTTP 500", "Failed to fetch"}
              /\ UNCHANGED <<snapshot, lastUpdated>>
        /\ (fetches'[f].phase = "ok") =>
              /\ \E doc \in UpstreamBodies(fetches[f].upstream) :
                    snapshot' = parsedSnapshot(doc)
              /\ lastUpdated' = clock
              /\ error' = NoError
              /\ applied' = Append(applied, f)
\* C6: every completion step keeps the snapshot on failure and replaces it on success.
C6_FailureKeepsSnapshot == [][C6_CompletionStep]_vars

\* a fetch failed after an earlier one had succeeded: the error shows, the snapshot stays
C6_Witness ==
    /\ error # NoError
    /\ snapshot \in Docs
    /\ Len(fetches) = 2
    /\ fetches[2].phase = "failed"

\* C7: a tick of the auto-refresh timer that fires while the page is not
\* visible makes no request and changes no controller state; a tick that fires
\* while it is visible makes one request.
C7_TickStep ==
    TickStep =>
        IF visible
          THEN last'.outcome \in {"started", "shared", "dropped"}
          ELSE /\ last'.outcome = "hidden"
               /\ UNCHANGED <<ctl, fetches, applied>>
\* C7: every tick step is gated on visibility.
C7_TickGatedOnVisibility == [][C7_TickStep]_vars

\* a tick has just fired while the page was hidden and the gap had elapsed
C7_Witness ==
    /\ last = [kind |-> "tick", outcome |-> "hidden"]
    /\ ~visible
    /\ Outstanding = {}
    /\ GapElapsed

\* C8: results are applied in the order their fetches were issued.
C8_AppliedInIssueOrder ==
    \A i, j \in DOMAIN applied : i < j => applied[i] < applied[j]

\* two results have been applied
C8_Witness == Len(applied) >= 2

\* C9: whenever an outstanding fetch completes, by success or by failure, the
\* in-flight handle is cleared and isRefreshing becomes false, and a request
\* made once the gap has elapsed starts a new fetch; and if every fetch
\* eventually completes, the controller always eventually leaves InFlight.
C9_CompletionStep ==
    /\ \A f \in Outstanding : Completed(f) =>
          (inFlightRequestRef' = 0 /\ ~isRefreshing' /\ Outstanding' = {})
    /\ (RequestStep /\ Outstanding = {} /\ fetches # <<>> /\ GapElapsed)
          => (FetchStarted /\ inFlightRequestRef' = Len(fetches'))
\* C9: every completion leaves InFlight, and InFlight always eventually ends.
C9_LeavesInFlight ==
    /\ [][C9_CompletionStep]_vars
    /\ (inFlightRequestRef # 0) ~> (inFlightRequestRef = 0 /\ ~isRefreshing)

\* a fetch was started after an earlier one had completed
C9_Witness ==
    /\ Len(fetches) >= 2
    /\ fetches[1].phase \in {"ok", "failed"}
    /\ inFlightRequestRef = 2
    /\ isRefreshing

\* C10: a transport failure leaves the auto-refresh timer installed and starts
\* no fetch of its own: the next tick that fires while the page is visible and
\* the gap has elapsed starts a new fetch, and every fetch is started by a
\* handler (the effect run at mount or re-run, a timer tick, a click), never by
\* a completion.
C10_Step ==
    /\ \A f \in Outstanding : (fetches'[f].phase = "failed") =>
          (autoDue' = autoDue /\ autoDue # 0 /\ NoFetchStarted)
    /\ (TickStep /\ visible /\ error # NoError /\ Outstanding = {} /\ GapElapsed)
          => (FetchStarted /\ fetches'[Len(fetches')].by = "tick")
    /\ FetchStarted =>
          /\ RequestStep
          /\ last'.kind \in HandlerKinds
          /\ fetches'[Len(fetches')].by = last'.kind
          /\ \A f \in Outstanding : ~Completed(f)
\* C10: no step lets a failure stop the timer or a completion start a fetch.
C10_FailureKeepsTimer == [][C10_Step]_vars

\* a tick has just started a fetch while the error of a failed fetch was showing
C10_Witness ==
    /\ Len(fetches) >= 2
    /\ fetches[Len(fetches) - 1].phase = "failed"
    /\ fetches[Len(fetches)].by = "tick"
    /\ last = [kind |-> "tick", outcome |-> "started"]
    /\ error # NoError

\* C11: the displayed cooldown is max(0, ceil((nextAllowedAt - now) / 1000)) for
\* the clock value now sampled at the first render or by the 1-second tick: the
\* least integer k >= 0 with k seconds >= nextAllowedAt - now.  It is no input
\* of fetchBusData: a request starts a fetch exactly when nothing is in flight
\* and the gap has elapsed since the last issue, whatever the display shows.
C11_CooldownValue ==
    /\ nowMs <= clock
    /\ refreshCooldownSeconds >= 0
    /\ refreshCooldownSeconds * SECOND >= nextAllowedRefreshAt - nowMs
    /\ refreshCooldownSeconds > 0
          => (refreshCooldownSeconds - 1) * SECOND < nextAllowedRefreshAt - nowMs
C11_DecisionStep ==
    RequestStep => (FetchStarted <=> (Outstanding = {} /\ GapElapsed))
\* C11: the cooldown is the ceiling formula and the refresh decision ignores it.
C11_CooldownIsDerived == []C11_CooldownValue /\ [][C11_DecisionStep]_vars

\* a second fetch has just been started while the display, computed from a stale
\* nowMs, still showed a positive cooldown for the previous one
C11_Witness ==
    /\ Len(fetches) >= 2
    /\ last.outcome = "started"
    /\ nowMs < fetches[Len(fetches) - 1].at + MIN_REQUEST_GAP_MS
    /\ refreshCooldownSeconds > 0
    /\ (nextAllowedRefreshAt - nowMs) % SECOND # 0

\* C18: between events isRefreshing is true exactly when the in-flight handle is
\* set, which is exactly when a fetch is outstanding.
C18_RefreshingIffInFlight ==
    /\ isRefreshing <=> inFlightRequestRef # 0
    /\ inFlightRequestRef # 0 <=> Outstanding # {}
    /\ inFlightRequestRef # 0 => inFlightRequestRef \in Outstanding

\* a fetch is being read while isRefreshing shows, after an earlier one completed
C18_Witness ==
    /\ isRefreshing
    /\ Len(fetches) = 2
    /\ fetches[2].phase = "reading"
    /\ ~loading

\* C19: in a StopPage whose stop code changes while it stays mounted, a result
\* is only applied if it was fetched for the stop code current at that time,
\* and the request made by the stop-code change starts a fetch for the new code.
C19_Step ==
    /\ \A f \in Outstanding :
          (fetches'[f].phase = "ok") => fetches[f].code = ClosureCode
    /\ (nev' = nev + 1 /\ last'.kind = "rerun")
          => (FetchStarted /\ fetches'[Len(fetches')].code = stopCode')
\* C19: every step applies results for the current stop code only and serves a stop-code change.
C19_StopCodeChange == [][C19_Step]_vars

\* C20: the displayed cooldown never exceeds ceil(minimumGap / 1000).
C20_CooldownBounded ==
    (refreshCooldownSeconds - 1) * SECOND < MIN_REQUEST_GAP_MS

\* C17: when the upstream source answers a stop-code request with a non-success
\* status, the refresh that caused it ends in the error state and the previous
\* snapshot is retained: the answer is not read as a success whose body
\* replaces the snapshot.
C17_Step ==
    \A f \in Outstanding :
        (fetches[f].upstream = "404" /\ Completed(f)) =>
            /\ fetches'[f].phase = "failed"
            /\ error' # NoError
            /\ UNCHANGED <<snapshot, lastUpdated>>
\* C17: no step completes a fetch that the upstream source refused as a success.
C17_UpstreamFailureIsAnError == [][C17_Step]_vars

----------------------------------------------------------------------------
\* C12: a route block whose header is a route token with no second token
\* after it is still emitted, its route being the token and, where the page
\* keeps a direction, its direction being the empty text.
TokenOnly(t) == t # <<>> /\ Blank \notin Range(t)

\* C12: a block with a token-only header is emitted, its direction empty
C12_TokenOnlyHeaderEmitted ==
    Returned("parseBusData") =>
        \A i \in DOMAIN call.arg.directions :
            LET dir == call.arg.directions[i]
            IN  (dir.header # <<>> /\ TokenOnly(trim(dir.header[1]))) =>
                    \E k \in DOMAIN EmittedRoutes :
                        /\ EmittedRoutes[k].route = trim(dir.header[1])
                        /\ call.page = "StopPage" => EmittedRoutes[k].direction = <<>>

----------------------------------------------------------------------------
\* C13: the blocks with a parsable header (a token, blanks, more text) give
\* one route each, in document order; the arrivals of a route are one entry
\* per ordered list that has an item, built from the first item only, in
\* document order.  A list without an item gives nothing; a block without a
\* list gives a route with no arrivals.
Parsable(dir) ==
    dir.header # <<>> /\ trim(dir.header[1]) # <<>> /\ Blank \in Range(trim(dir.header[1]))
NotEmpty(ol) == ol # <<>>

\* C13: one route per parsable block, one arrival per list that has an item
C13_OneArrivalPerList ==
    Returned("parseBusData") =>
        LET blocks == SelectSeq(call.arg.directions, Parsable)
        IN  /\ Len(EmittedRoutes) = Len(blocks)
            /\ \A k \in DOMAIN blocks :
                   LET lists == SelectSeq(blocks[k].ols, NotEmpty)
                   IN  /\ Len(EmittedRoutes[k].arrivals) = Len(lists)
                       /\ \A j \in DOMAIN lists :
                              EmittedRoutes[k].arrivals[j] = Arrival(lists[j][1])

\* a document whose first block has an empty list and a list of two items,
\* and whose second block has no list
C13_Witness ==
    /\ Returned("parseBusData")
    /\ Len(call.arg.directions) = 2
    /\ \A i \in 1..2 : Parsable(call.arg.directions[i])
    /\ \E j \in DOMAIN call.arg.directions[1].ols : call.arg.directions[1].ols[j] = <<>>
    /\ \E j \in DOMAIN call.arg.directions[1].ols : Len(call.arg.directions[1].ols[j]) = 2
    /\ call.arg.directions[2].ols = <<>>
    /\ Len(EmittedRoutes) = 2
    /\ Len(EmittedRoutes[1].arrivals) = 2
    /\ EmittedRoutes[2].arrivals = <<>>

----------------------------------------------------------------------------
\* C14: parseMinutesNum is decided by the first rule that applies:
\* "approaching" in any letter case gives 0, else "<" gives 0.5, else a
\* leading number gives that number, else 999.
\* C14: the first applicable rule decides the minutes value
C14_MinutesValue ==
    Returned("parseMinutesNum") =>
        /\ result.value =
               (IF IncludesFolded(call.arg, "approaching") THEN [nan |-> FALSE, num |-> 0, den |-> 1]
                ELSE IF Includes(call.arg, "<") THEN [nan |-> FALSE, num |-> 1, den |-> 2]
                ELSE IF ~parseFloat(call.arg).nan THEN parseFloat(call.arg)
                ELSE [nan |-> FALSE, num |-> 999, den |-> 1])
        /\ call.arg = <<"Approaching">> => result.value = [nan |-> FALSE, num |-> 0, den |-> 1]
        /\ call.arg = <<"<", "1", Blank, "min">> => result.value = [nan |-> FALSE, num |-> 1, den |-> 2]
        /\ call.arg = <<"7", Blank, "min">> => result.value = [nan |-> FALSE, num |-> 7, den |-> 1]
        /\ call.arg = <<"garbage">> => result.value = [nan |-> FALSE, num |-> 999, den |-> 1]

\* a text that has both "<" and "Approaching", "<" first, gives 0
C14_Witness ==
    /\ Returned("parseMinutesNum")
    /\ call.arg = <<"<", "1", "Approaching">>
    /\ result.value.num = 0

----------------------------------------------------------------------------
\* C15: parseStopsAway applies its rules in precedence: a stops match gives
\* "<N> stops away"; else "approaching" gives "Approaching"; else a miles
\* match gives "~S stops away" with S an integer of at least 1; else the
\* text is returned unchanged.
IsStopCount(s) == s # <<>> /\ Range(s) \subseteq DigitSet /\ ValueOf(s) >= 1

\* C15: the first matching rule wins and a miles match gives an integer >= 1
C15_StopsAwayPrecedence ==
    Returned("parseStopsAway") =>
        LET stopsMatch == AwayMatch(call.arg, DigitSet \cup {"<"}, {"stop", "stops"})
            milesMatch == AwayMatch(call.arg, DigitSet \cup {"."}, {"mile", "miles"})
        IN  IF stopsMatch[1] # 0
              THEN result.value = SubSeq(call.arg, stopsMatch[1], stopsMatch[2]) \o StopsAway
            ELSE IF IncludesFolded(call.arg, "approaching")
              THEN result.value = <<"Approaching">>
            ELSE IF milesMatch[1] # 0
              THEN /\ Len(result.value) > Len(StopsAway) + 1
                   /\ result.value[1] = "~"
                   /\ From(result.value, Len(result.value) - Len(StopsAway) + 1) = StopsAway
                   /\ IsStopCount(SubSeq(result.value, 2, Len(result.value) - Len(StopsAway)))
            ELSE result.value = call.arg

----------------------------------------------------------------------------
\* C16: the display order lists the routes with an arrival first, in
\* ascending order of the first arrival's minutesNum, then the routes
\* without an arrival; every route of the snapshot is shown exactly once.
FirstRank(r) == r.arrivals[1].minutesNum
Shows(card, r) ==
    \/ card.data = <<r>>
    \/ card.data = <<>> /\ r.arrivals = <<>> /\ card.route = r.route
TimesShown(r) == Cardinality({k \in DOMAIN result.value : Shows(result.value[k], r)})
TimesListed(r) == Cardinality({i \in DOMAIN call.arg : call.arg[i] = r})
Active == SelectSeq(call.arg, HasArrivals)

\* the cards of the routes with an arrival come first, in ascending order
ArrivalsFirstAscending ==
    /\ Len(result.value) >= Len(Active)
    /\ \A k \in DOMAIN result.value :
           IF k <= Len(Active)
             THEN result.value[k].data # <<>> /\ HasArrivals(result.value[k].data[1])
             ELSE result.value[k].data = <<>> \/ HasNone(result.value[k].data[1])
    /\ \A k \in 1..(Len(Active) - 1) :
           Minus(FirstRank(result.value[k].data[1]), FirstRank(result.value[k + 1].data[1])) <= 0

\* C16 as stated: on either page every route of the snapshot is shown once
C16_DisplayOrder ==
    Returned("render") =>
        /\ ArrivalsFirstAscending
        /\ \A r \in Range(call.arg) : TimesShown(r) = TimesListed(r)

\* C16: on StopPage every route of the snapshot is shown once; on Home the
\* routes with an arrival are shown once each and are followed by one empty
\* card for each of ALL_ROUTES that has no arrival in the snapshot
C16_DisplayOrderByPage ==
    Returned("render") =>
        /\ ArrivalsFirstAscending
        /\ \A r \in Range(Active) : TimesShown(r) = TimesListed(r)
        /\ call.page = "StopPage" =>
               /\ Len(result.value) = Len(call.arg)
               /\ \A r \in Range(call.arg) : TimesShown(r) = TimesListed(r)
        /\ call.page = "Home" =>
               LET Idle(name) == \A r \in Range(Active) : r.route # name
                   idle == SelectSeq(ALL_ROUTES, Idle)
               IN  /\ Len(result.value) = Len(Active) + Len(idle)
                   /\ \A k \in DOMAIN idle :
                          result.value[Len(Active) + k] = [route |-> idle[k], data |-> <<>>]

\* a snapshot listing a route without arrivals, then a route of rank 999,
\* then a route of rank 0.5, is shown in the opposite order
C16_Witness ==
    /\ Returned("render")
    /\ call.page = "StopPage"
    /\ Len(call.arg) = 3
    /\ HasNone(call.arg[1]) /\ HasArrivals(call.arg[2]) /\ HasArrivals(call.arg[3])
    /\ FirstRank(call.arg[2]).num = 999
    /\ FirstRank(call.arg[3]).den = 2
    /\ result.value[1].data = <<call.arg[3]>>
    /\ result.value[2].data = <<call.arg[2]>>
    /\ result.value[3].data = <<call.arg[1]>>

----------------------------------------------------------------------------
\* C21: loading starts true, becomes false when the first fetch of the
\* instance completes, by success or by failure, and is never true again;
\* when every fetch completes, a mounted page eventually stops loading.
NoFetchCompleted == \A f \in DOMAIN fetches : fetches[f].phase \notin {"ok", "failed"}
C21_Step ==
    /\ loading' => loading
    /\ (loading /\ ~loading') => \E f \in Outstanding : Completed(f)

\* C21: loading holds exactly until the first completion, which always comes
C21_LoadingUntilFirstCompletion ==
    /\ [](loading <=> NoFetchCompleted)
    /\ [][C21_Step]_vars
    /\ mounted ~> ~loading

\* a later fetch is pending, its predecessor failed, and loading stays false
C21_Witness ==
    /\ mounted
    /\ ~loading
    /\ Len(fetches) >= 2
    /\ fetches[1].phase = "failed"
    /\ Outstanding # {}

----------------------------------------------------------------------------
\* C22: a request to /api/bustime without a q parameter, or with an empty
\* one, is answered with status 400 and never contacts the upstream source;
\* a request with a q that is not empty causes exactly one upstream request,
\* for that stop code.
decodeURIComponent(text) ==
    [i \in DOMAIN text |->
        CASE text[i] = "%2C" -> ","
          [] text[i] = "%20" -> Blank
          [] OTHER -> text[i]]
Handled == call.fn = "bustimeProxy" /\ result.value.phase # "received"

\* C22: 400 and no upstream request without q; one upstream request with q
C22_ProxyContactsUpstreamOnce ==
    call.fn = "bustimeProxy" =>
        /\ result.value.phase = "received" => result.value.contacted = <<>>
        /\ Handled =>
               IF call.arg = <<>> \/ call.arg = <<"">>
                 THEN /\ result.done
                      /\ result.value.status = 400
                      /\ result.value.contacted = <<>>
                 ELSE /\ Len(result.value.contacted) = 1
                      /\ result.value.status # 400
                      /\ Len(call.arg) = 1 =>
                             decodeURIComponent(result.value.contacted[1]) = <<call.arg[1]>>

\* the request GET /api/bustime?q= has been answered with 400
C22_Witness ==
    /\ Handled
    /\ call.arg = <<"">>
    /\ result.done
    /\ result.value.status = 400

====
